---- MODULE Spec2Model ----
(***************************************************************************)
(* Model of crate_downloader.py: one run of main() over a Cargo.lock.      *)
(*                                                                         *)
(* Strings are sequences of symbols.  The symbol "/" is the path separator *)
(* os.path.join looks at; every other symbol stands for a piece of text    *)
(* that holds no separator (a letter, or a whole word such as "api").      *)
(* os.path is posixpath.  Transport exceptions and OSError raised by       *)
(* makedirs/open are outside the model: every fetch answers with a status  *)
(* code, and the directory and file writes of a 200 answer succeed.        *)
(***************************************************************************)
EXTENDS Integers, Sequences, FiniteSets, TLC

VARIABLES args, lock_file, pc, idx, fs, fs0, requests, writes,
          err_log_file, open_count, diag, outcome, exit_status

vars == <<args, lock_file, pc, idx, fs, fs0, requests, writes,
          err_log_file, open_count, diag, outcome, exit_status>>

\* ---------------------------------------------------------------- bounds
\* Longest package sequence of a lock file.
MaxPkgs == 3

\* ------------------------------------------------------------- constants
None == "None"
\* Marks a location of the file system that holds no file.
Absent == "absent"
Sep == "/"
HTTP_OK == 200
\* Status codes a registry answers with in the model.
StatusCodes == {200, 404}
\* Archive bodies a registry answers with; OldContent is what a file that
\* was on disk before the run holds.
Payloads == {"x", "y"}
OldContent == "old"

\* (name, version) pairs a lock file may hold.  "a/" and "a" give the same
\* local path under os.path.join.
Crates ==
  { [name |-> <<"a">>, version |-> <<"1">>],
    [name |-> <<"a", "/">>, version |-> <<"1">>],
    [name |-> <<"b">>, version |-> <<"1">>] }

\* Defaults of --repo and --output.
DefaultRepo == <<"https://crates.io">>
DefaultOutput == <<".", "/">>
ApiPrefix == <<"api", "/", "v1", "/", "crates", "/">>
DownloadName == <<"download">>

\* ------------------------------------------------------------ os.path.join
StartsWithSep(b) == Len(b) > 0 /\ b[1] = Sep
EndsWithSep(p) == Len(p) > 0 /\ p[Len(p)] = Sep

\* One round of posixpath.join's loop: an absolute component restarts the
\* path, otherwise it is appended with exactly one separator between.
JoinStep(path, b) ==
  IF StartsWithSep(b) THEN b
  ELSE IF path = <<>> \/ EndsWithSep(path) THEN path \o b
  ELSE path \o <<Sep>> \o b

RECURSIVE Join(_, _)
Join(a, ps) == IF ps = <<>> THEN a ELSE Join(JoinStep(a, Head(ps)), Tail(ps))

Link(crate_io_link, name, version) ==
  Join(crate_io_link, <<ApiPrefix, name, version, DownloadName>>)

DirPath(local_path, name, version) ==
  Join(local_path, <<ApiPrefix, name, version>>)

CratePath(local_path, name, version) ==
  Join(DirPath(local_path, name, version), <<DownloadName>>)

\* ------------------------------------------------------------ file system
\* Pathname resolution: the components between separators, empty ones and
\* "." dropped; abs tells an absolute path from one relative to the cwd.
RECURSIVE SplitAcc(_, _, _)
SplitAcc(s, cur, acc) ==
  IF s = <<>> THEN Append(acc, cur)
  ELSE IF Head(s) = Sep THEN SplitAcc(Tail(s), <<>>, Append(acc, cur))
  ELSE SplitAcc(Tail(s), Append(cur, Head(s)), acc)

IsRealComponent(c) == c /= <<>> /\ c /= <<".">>

Resolve(p) ==
  [abs |-> StartsWithSep(p),
   parts |-> SelectSeq(SplitAcc(p, <<>>, <<>>), IsRealComponent)]

\* The archive locations the crates of the model can name.
ArchiveFiles ==
  { Resolve(CratePath(DefaultOutput, c.name, c.version)) : c \in Crates }

\* A location and all its ancestors below the root / the cwd.
Ancestors(r) ==
  { [abs |-> r.abs, parts |-> SubSeq(r.parts, 1, n)] : n \in 1..Len(r.parts) }

Parent(r) == [abs |-> r.abs, parts |-> SubSeq(r.parts, 1, Len(r.parts) - 1)]

\* os.path.exists
Exists(f, path) ==
  LET r == Resolve(path)
  IN  \/ r \in f.dirs
      \/ (r \in DOMAIN f.files /\ f.files[r] /= Absent)

\* os.makedirs(dir_path, exist_ok=True)
Makedirs(f, dir_path) ==
  [f EXCEPT !.dirs = @ \cup Ancestors(Resolve(dir_path))]

\* open(crate_path, 'wb') ; write ; close
WriteFile(f, path, content) ==
  [f EXCEPT !.files[Resolve(path)] = content]

\* A file system holding old archives at the locations in S.
FsWith(S) ==
  [files |-> [r \in ArchiveFiles |-> IF r \in S THEN OldContent ELSE Absent],
   dirs |-> UNION { Ancestors(Parent(r)) : r \in S }]

\* ------------------------------------------------------------------ state
\* What the path given as cargo_lock_file holds: nothing, text toml cannot
\* decode, a document without a package table, or a package sequence.
RECURSIVE SeqsUpTo(_, _)
SeqsUpTo(S, n) ==
  IF n = 0 THEN {<<>>}
  ELSE LET shorter == SeqsUpTo(S, n - 1)
       IN  shorter \cup { Append(s, x) : s \in shorter, x \in S }

LockFiles ==
  { [kind |-> k, package |-> <<>>] : k \in {"missing", "malformed", "nopackage"} }
    \cup { [kind |-> "ok", package |-> s] : s \in SeqsUpTo(Crates, MaxPkgs) }

Arguments ==
  [overwrite : BOOLEAN, exit_on_error : BOOLEAN, err_log : {None, "err.log"},
   repo_link : {DefaultRepo}, output_dir : {DefaultOutput}]

NumPackages == Len(lock_file.package)
package == lock_file.package[idx]

link == Link(args.repo_link, package.name, package.version)
dir_path == DirPath(args.output_dir, package.name, package.version)
crate_path == CratePath(args.output_dir, package.name, package.version)

Init ==
  /\ args \in Arguments
  /\ lock_file \in LockFiles
  /\ fs \in { FsWith(S) : S \in SUBSET ArchiveFiles }
  /\ fs0 = fs
  /\ pc = "start"
  /\ idx = 0
  /\ requests = <<>>
  /\ writes = <<>>
  /\ err_log_file = [kind |-> None, closed |-> FALSE, lines |-> <<>>]
  /\ open_count = 0
  /\ diag = <<>>
  /\ outcome = [j \in 1..NumPackages |-> "Pending"]
  /\ exit_status = None

\* ---------------------------------------------------------------- main()
\* A loader that takes text toml cannot decode for an empty document.
LoadResultLenient(kind) ==
  CASE kind = "missing" -> "FileNotFoundError"
    [] OTHER -> "loaded"

\* What open() + toml.loads() do with the lock file.
LoadResult(kind) ==
  CASE kind = "missing" -> "FileNotFoundError"
    [] kind = "malformed" -> "TomlDecodeError"
    [] OTHER -> "loaded"

ReadLockFileNotFound ==
  /\ pc = "start"
  /\ LoadResult(lock_file.kind) = "FileNotFoundError"
  /\ diag' = diag \o <<"Error reading", "FileNotFoundError">>
  /\ exit_status' = -1
  /\ pc' = "done"
  /\ UNCHANGED <<args, lock_file, idx, fs, fs0, requests, writes,
                 err_log_file, open_count, outcome>>

ReadLockFileDecodeError ==
  /\ pc = "start"
  /\ LoadResult(lock_file.kind) = "TomlDecodeError"
  /\ diag' = diag \o <<"Error parsing", "TomlDecodeError">>
  /\ exit_status' = -1
  /\ pc' = "done"
  /\ UNCHANGED <<args, lock_file, idx, fs, fs0, requests, writes,
                 err_log_file, open_count, outcome>>

ReadLockFileOK ==
  /\ pc = "start"
  /\ LoadResult(lock_file.kind) = "loaded"
  /\ pc' = "open_log"
  /\ UNCHANGED <<args, lock_file, idx, fs, fs0, requests, writes,
                 err_log_file, open_count, diag, outcome, exit_status>>

\* err_log_file = sys.stderr, or open(args.err_log, 'w')
OpenErrLog ==
  /\ pc = "open_log"
  /\ IF args.err_log = None
     THEN /\ err_log_file' = [kind |-> "stderr", closed |-> FALSE, lines |-> <<>>]
          /\ open_count' = open_count
     ELSE /\ err_log_file' = [kind |-> "file", closed |-> FALSE, lines |-> <<>>]
          /\ open_count' = open_count + 1
  /\ pc' = "iter"
  /\ UNCHANGED <<args, lock_file, idx, fs, fs0, requests, writes,
                 diag, outcome, exit_status>>

\* cargo_lock['package'] of a document without that table: the KeyError is
\* caught nowhere, the interpreter prints the traceback and exits with 1.
PackageKeyError ==
  /\ pc = "iter"
  /\ lock_file.kind = "nopackage"
  /\ diag' = Append(diag, "KeyError")
  /\ exit_status' = 1
  /\ pc' = "done"
  /\ UNCHANGED <<args, lock_file, idx, fs, fs0, requests, writes,
                 err_log_file, open_count, outcome>>

StartLoop ==
  /\ pc = "iter"
  /\ lock_file.kind /= "nopackage"
  /\ idx' = 1
  /\ pc' = "loop"
  /\ UNCHANGED <<args, lock_file, fs, fs0, requests, writes,
                 err_log_file, open_count, diag, outcome, exit_status>>

\* ------------------------------------------------------- download_crate()
\* Faulty variants of the skip rule: the "not" dropped, the flag ignored,
\* the existence test inverted.
SkipRuleNotDropped(overwrite_existing, exists) == overwrite_existing /\ exists
SkipRuleFlagIgnored(overwrite_existing, exists) == exists
SkipRuleInverted(overwrite_existing, exists) == ~overwrite_existing /\ ~exists

\* if not overwrite_existing and os.path.exists(crate_path): return
SkipRule(overwrite_existing, exists) == ~overwrite_existing /\ exists

\* A loop that stays on the same record instead of taking the next one.
AdvanceRetry(i) == i

\* for package in crates_progress_bar: the next record of the sequence.
Advance(i) == i + 1

SkipCrate ==
  /\ pc = "loop"
  /\ idx <= NumPackages
  /\ SkipRule(args.overwrite, Exists(fs, crate_path))
  /\ outcome' = [outcome EXCEPT ![idx] = "Skipped"]
  /\ idx' = Advance(idx)
  /\ UNCHANGED <<args, lock_file, pc, fs, fs0, requests, writes,
                 err_log_file, open_count, diag, exit_status>>

\* requests.get(link, stream=True): the request is out, main() blocks.  The
\* code of a request is <<>> until the answer is in, then <<status>>.
SendRequest ==
  /\ pc = "loop"
  /\ idx <= NumPackages
  /\ ~SkipRule(args.overwrite, Exists(fs, crate_path))
  /\ requests' = Append(requests, [pos |-> idx, link |-> link, code |-> <<>>])
  /\ pc' = "fetch"
  /\ UNCHANGED <<args, lock_file, idx, fs, fs0, writes,
                 err_log_file, open_count, diag, outcome, exit_status>>

\* get_link_with_progress: content is None unless the status is 200.
Content(status_code) == IF status_code /= HTTP_OK THEN {None} ELSE Payloads

\* A status test that lets a client error through as a success.
RaisesOnServerErrorOnly(status_code) == status_code >= 500

\* if result.get_status_code() != 200: raise CrateDownloadError
RaisesDownloadError(status_code) == status_code /= HTTP_OK

\* Faulty variants of the abort test: the flag ignored either way.
AbortsNever(exit_on_error) == FALSE
AbortsAlways(exit_on_error) == TRUE

\* if args.exit_on_error: return -1
AbortsOnError(exit_on_error) == exit_on_error

ErrorLine(name, version, code, lnk) ==
  [name |-> name, version |-> version, code |-> code, link |-> lnk]

\* The answer arrives with a status that makes download_crate raise: the
\* except clause of main() prints the line and returns or goes on.
DownloadError ==
  /\ pc = "fetch"
  /\ \E code \in StatusCodes : \E content \in Content(code) :
       /\ RaisesDownloadError(code)
       /\ requests' = [requests EXCEPT ![Len(requests)].code = <<code>>]
       /\ err_log_file' =
            [err_log_file EXCEPT
               !.lines = Append(@, ErrorLine(package.name, package.version, code, link))]
       /\ outcome' = [outcome EXCEPT ![idx] = "FetchedFail"]
       /\ IF AbortsOnError(args.exit_on_error)
          THEN /\ exit_status' = -1
               /\ pc' = "done"
               /\ idx' = idx
          ELSE /\ exit_status' = exit_status
               /\ pc' = "loop"
               /\ idx' = Advance(idx)
  /\ UNCHANGED <<args, lock_file, fs, fs0, writes, open_count, diag>>

\* The answer arrives and download_crate goes on to makedirs and the write.
DownloadOK ==
  /\ pc = "fetch"
  /\ \E code \in StatusCodes : \E content \in Content(code) :
       /\ ~RaisesDownloadError(code)
       /\ requests' = [requests EXCEPT ![Len(requests)].code = <<code>>]
       /\ fs' = WriteFile(Makedirs(fs, dir_path), crate_path, content)
       /\ writes' = Append(writes, [pos |-> idx, path |-> crate_path, content |-> content])
       /\ outcome' = [outcome EXCEPT ![idx] = "FetchedOK"]
  /\ idx' = Advance(idx)
  /\ pc' = "loop"
  /\ UNCHANGED <<args, lock_file, fs0, err_log_file, open_count, diag, exit_status>>

\* The loop is exhausted: close the log if it is not stderr, return 0.
Finish ==
  /\ pc = "loop"
  /\ idx > NumPackages
  /\ err_log_file' =
       IF err_log_file.kind /= "stderr"
       THEN [err_log_file EXCEPT !.closed = TRUE]
       ELSE err_log_file
  /\ exit_status' = 0
  /\ pc' = "done"
  /\ UNCHANGED <<args, lock_file, idx, fs, fs0, requests, writes,
                 open_count, diag, outcome>>

Next ==
  \/ ReadLockFileNotFound
  \/ ReadLockFileDecodeError
  \/ ReadLockFileOK
  \/ OpenErrLog
  \/ PackageKeyError
  \/ StartLoop
  \/ SkipCrate
  \/ SendRequest
  \/ DownloadError
  \/ DownloadOK
  \/ Finish

Spec == Init /\ [][Next]_vars

\* ============================================================= properties
Positions == 1..NumPackages
PathOf(j) ==
  CratePath(args.output_dir, lock_file.package[j].name, lock_file.package[j].version)
LocationOf(j) == Resolve(PathOf(j))
RequestsAt(j) == { k \in 1..Len(requests) : requests[k].pos = j }
WritesAt(j) == { k \in 1..Len(writes) : writes[k].pos = j }
\* The fetches that were answered with a status other than 200.
Failed == { k \in 1..Len(requests) : requests[k].code \notin {<<>>, <<HTTP_OK>>} }
Terminal == {"Skipped", "FetchedOK", "FetchedFail"}

\* The error lines the failed fetches call for, in the order of the fetches.
RECURSIVE LinesOf(_)
LinesOf(rs) ==
  IF rs = <<>> THEN <<>>
  ELSE LET r == Head(rs)
           p == lock_file.package[r.pos]
       IN  IF r.code \notin {<<>>, <<HTTP_OK>>}
           THEN <<ErrorLine(p.name, p.version, r.code[1], r.link)>> \o LinesOf(Tail(rs))
           ELSE LinesOf(Tail(rs))

\* C1 -- skip rule: when a record is reached with overwrite false and its
\* archive path exists, the step taken issues no fetch, writes no error
\* line, leaves the file system as it is, and moves on to the next record.
C1_SkipRule ==
  [][ ( /\ pc = "loop"
        /\ idx <= NumPackages
        /\ ~args.overwrite
        /\ Exists(fs, crate_path) )
      => ( /\ requests' = requests
           /\ err_log_file' = err_log_file
           /\ fs' = fs
           /\ writes' = writes
           /\ outcome' = [outcome EXCEPT ![idx] = "Skipped"]
           /\ idx' = idx + 1
           /\ pc' = "loop" ) ]_vars

\* A record was skipped and the run went on to handle the record after it.
C1_Witness ==
  \E j \in Positions :
    /\ outcome[j] = "Skipped"
    /\ j < NumPackages
    /\ outcome[j + 1] /= "Pending"

\* C2 -- with exit_on_error, a fetch answered with a non-200 status is the
\* last fetch of the run: one error line (its own) is in the log, the run
\* has ended with status -1, and no later record was fetched, written or
\* given an outcome.
C2_AbortOnFirstError ==
  args.exit_on_error =>
    \A k \in Failed :
      LET j == requests[k].pos
          p == lock_file.package[j]
      IN  /\ pc = "done"
          /\ exit_status = -1
          /\ k = Len(requests)
          /\ err_log_file.lines =
               <<ErrorLine(p.name, p.version, requests[k].code[1], requests[k].link)>>
          /\ WritesAt(j) = {}
          /\ \A m \in (j + 1)..NumPackages :
               /\ outcome[m] = "Pending"
               /\ RequestsAt(m) = {}
               /\ WritesAt(m) = {}

\* The run aborted on a failed fetch that came after a successful one and
\* before a record that was never attempted.
C2_Witness ==
  /\ args.exit_on_error
  /\ pc = "done"
  /\ exit_status = -1
  /\ Failed /= {}
  /\ Len(requests) >= 2
  /\ requests[Len(requests)].pos < NumPackages

\* C3 -- without exit_on_error and with a lock file that yielded a package
\* sequence, the error log holds exactly the lines of the fetches answered
\* with a non-200 status, and the run ends with status 0 after every record
\* has reached a per-package outcome.
C3_TolerateErrors ==
  (~args.exit_on_error /\ lock_file.kind = "ok") =>
    /\ err_log_file.lines = LinesOf(requests)
    /\ pc = "done" =>
         /\ exit_status = 0
         /\ \A j \in Positions : outcome[j] \in Terminal
         /\ Len(err_log_file.lines) = Cardinality(Failed)
         /\ Cardinality({ j \in Positions : outcome[j] = "FetchedFail" })
              = Len(err_log_file.lines)

\* A finished run that saw a failed fetch, a successful one and a skip.
C3_Witness ==
  /\ ~args.exit_on_error
  /\ pc = "done"
  /\ \E j \in Positions : outcome[j] = "FetchedFail"
  /\ \E j \in Positions : outcome[j] = "FetchedOK"
  /\ \E j \in Positions : outcome[j] = "Skipped"

\* No archive was on disk before the run, and no fetch was answered with a
\* status other than 200.
CleanDiskAndRegistry ==
  /\ lock_file.kind = "ok"
  /\ \A r \in ArchiveFiles : fs0.files[r] = Absent
  /\ Failed = {}

LastWriteWins ==
  \A r \in ArchiveFiles :
    LET ks == { k \in 1..Len(writes) : Resolve(writes[k].path) = r }
    IN  ks /= {} =>
          fs.files[r] = writes[CHOOSE k \in ks : \A m \in ks : m <= k].content

\* C5 as stated -- with overwrite set, every record that was processed has
\* had a fetch issued and its archive file written.
C5_AlwaysOverwritten ==
  args.overwrite =>
    \A j \in Positions :
      outcome[j] /= "Pending" => (RequestsAt(j) /= {} /\ WritesAt(j) /= {})

\* C5 as amended -- with overwrite set, every record that was processed has
\* had exactly one fetch issued for its link, whether or not a file was at
\* its path; a 200 answer was written to the path (and is what the file
\* holds until a later write), any other answer was not written.
C5_FetchedAndWrittenOn200 ==
  args.overwrite =>
    /\ LastWriteWins
    /\ \A j \in Positions :
         outcome[j] /= "Pending" =>
           /\ Cardinality(RequestsAt(j)) = 1
           /\ \A k \in RequestsAt(j) :
                /\ requests[k].link =
                     Link(args.repo_link, lock_file.package[j].name,
                          lock_file.package[j].version)
                /\ requests[k].code = <<HTTP_OK>> =>
                     /\ Cardinality(WritesAt(j)) = 1
                     /\ \A w \in WritesAt(j) :
                          /\ writes[w].path = PathOf(j)
                          /\ writes[w].content \in Payloads
                /\ requests[k].code /= <<HTTP_OK>> => WritesAt(j) = {}

\* With overwrite set, a file that was on disk before the run now holds a
\* fetched payload.
C5_Witness ==
  /\ args.overwrite
  /\ \E j \in Positions :
       /\ outcome[j] = "FetchedOK"
       /\ fs0.files[LocationOf(j)] = OldContent
       /\ fs.files[LocationOf(j)] \in Payloads

\* C6 -- when the lock file is missing, cannot be decoded or holds no
\* package sequence, the run never reaches the download loop: no fetch, no
\* write, the file system as it was, and a nonzero status at the end.
C6_LockFailureAbortsEarly ==
  lock_file.kind /= "ok" =>
    /\ requests = <<>>
    /\ writes = <<>>
    /\ fs = fs0
    /\ idx = 0
    /\ pc \notin {"loop", "fetch"}
    /\ pc = "done" => exit_status /= 0

\* A run over an undecodable lock file has ended, with its diagnostic out.
C6_Witness ==
  /\ lock_file.kind = "malformed"
  /\ pc = "done"
  /\ exit_status = -1
  /\ diag /= <<>>

\* C7 as stated -- the error log is opened at most once, and when main()
\* has returned and the log is a file the run opened, it has been closed.
C7_SinkClosedOnReturn ==
  /\ open_count <= 1
  /\ (pc = "done" /\ exit_status \in {0, -1} /\ err_log_file.kind = "file")
       => err_log_file.closed

\* C8 as stated -- two processed records with different (name, version)
\* pairs have different local archive paths.
C8_PathsDoNotCollide ==
  \A j \in Positions : \A m \in Positions :
    ( /\ outcome[j] /= "Pending"
      /\ outcome[m] /= "Pending"
      /\ lock_file.package[j] /= lock_file.package[m] )
    => PathOf(j) /= PathOf(m)

\* C9 -- fetches go out in lock-file order, one at a time and at most one
\* per record occurrence; a record is fetched or gets an outcome only after
\* every record before it has reached a per-package outcome.
C9_SequentialInOrder ==
  /\ \A k \in 1..(Len(requests) - 1) :
       /\ requests[k].pos < requests[k + 1].pos
       /\ requests[k].code /= <<>>
  /\ (requests /= <<>> /\ requests[Len(requests)].code = <<>>) => pc = "fetch"
  /\ \A j \in Positions :
       /\ Cardinality(RequestsAt(j)) <= 1
       /\ (outcome[j] /= "Pending" \/ RequestsAt(j) /= {}) =>
            \A m \in 1..(j - 1) : outcome[m] \in Terminal
       /\ outcome[j] = "Skipped" => RequestsAt(j) = {}
       /\ outcome[j] = "FetchedFail" =>
            \A k \in RequestsAt(j) : k \in Failed

\* A failed fetch was followed by the fetch of the next record.
C9_Witness ==
  \E j \in Positions :
    /\ j < NumPackages
    /\ outcome[j] = "FetchedFail"
    /\ RequestsAt(j + 1) /= {}

\* C10 -- the step that takes a non-200 answer leaves the file system
\* (directories and files) and the record of writes as they were, and adds
\* one line to the error log.
C10_FailedFetchWritesNothing ==
  [][ ( /\ pc = "fetch"
        /\ Len(requests') = Len(requests)
        /\ requests'[Len(requests)].code \notin {<<>>, <<HTTP_OK>>} )
      => ( /\ fs' = fs
           /\ writes' = writes
           /\ Len(err_log_file'.lines) = Len(err_log_file.lines) + 1 ) ]_vars

\* With overwrite set, a fetch failed for a record whose file was on disk
\* before the run, and the file still holds the old content.
C10_Witness ==
  /\ args.overwrite
  /\ \E j \in Positions :
       /\ outcome[j] = "FetchedFail"
       /\ fs0.files[LocationOf(j)] = OldContent
       /\ fs.files[LocationOf(j)] = OldContent

====
